---- MODULE Spec2Model ----
(***************************************************************************)
(* Model of src/runtime.rs: the Process handle (attach / drop), the typed  *)
(* memory reader (read_into_buf, read, read_into_slice), the pointer-path  *)
(* resolver (read_pointer_path32/64) and Address arithmetic.               *)
(*                                                                         *)
(* Integers are kept at their real width.  A u32 is a sequence of 4 bytes  *)
(* and a u64 a sequence of 8 bytes, least significant byte first (the      *)
(* in-memory layout on the little-endian wasm target the crate is built    *)
(* for), so a typed read is the reinterpretation of the bytes the host     *)
(* copied and 2^32 / 2^64 wraparound is real carry propagation.            *)
(***************************************************************************)
EXTENDS Integers, Sequences, FiniteSets, TLC

VARIABLES
    overflowChecks, \* build profile: TRUE when integer overflow checks are compiled in
    proc,           \* proc[h]: the Process value held in slot h (its ProcessId)
    hostOpen,       \* host side: liveness flag of every session id
    detachCount,    \* host side: number of process_detach calls received per session id
    call,           \* the last operation performed: arguments, host calls issued, result
    pending         \* the request drawn for the single-call specification SpecMem

vars == <<overflowChecks, proc, hostOpen, detachCount, call, pending>>

----------------------------------------------------------------------------
(* Bounds *)

MaxHandles == 2     \* Process slots (and session ids the host can hand out)
LifePath   == 1     \* longest pointer path used in the lifecycle specification
MaxPath    == 3     \* longest pointer path drawn in SpecMem
MaxPartial == 2     \* most bytes the host copies before it reports a failed read
MaxElems   == 2     \* longest caller slice handed to read_into_slice

Handles == 1..MaxHandles
Ids     == 1..MaxHandles

----------------------------------------------------------------------------
(* Bytes and fixed-width unsigned integers *)

UNINIT == -1        \* a byte of MaybeUninit memory nobody has written

Zeros(n) == [i \in 1..n |-> 0]
Uninit(n) == [i \in 1..n |-> UNINIT]

Min(a, b) == IF a < b THEN a ELSE b

RECURSIVE AddCarry(_, _, _)
AddCarry(a, b, c) ==
    IF a = <<>> THEN <<>>
    ELSE LET s == Head(a) + Head(b) + c
         IN  <<s % 256>> \o AddCarry(Tail(a), Tail(b), s \div 256)

RECURSIVE CarryOut(_, _, _)
CarryOut(a, b, c) ==
    IF a = <<>> THEN c
    ELSE CarryOut(Tail(a), Tail(b), (Head(a) + Head(b) + c) \div 256)

\* u32::wrapping_add / u64::wrapping_add
wrapping_add(a, b) == AddCarry(a, b, 0)

\* `x as u64` for x: u32
as_u64(x) == x \o Zeros(4)

\* the `+` operator on u64: panics on overflow when overflow checks are
\* compiled in (the default of debug builds), wraps otherwise (release builds)
Plus(a, b) ==
    IF overflowChecks /\ CarryOut(a, b, 0) = 1
    THEN [res |-> "panic", val |-> <<>>]
    ELSE [res |-> "Ok", val |-> wrapping_add(a, b)]

\* impl Add<u32> for Address, impl Add<u64> for Address
Address_add_u32(a, rhs) == Plus(a, as_u64(rhs))
Address_add_u64(a, rhs) == Plus(a, rhs)

----------------------------------------------------------------------------
(* Host primitives (extern "C") *)

NoAddr == <<>>
NoValue == <<>>

HostCall(fn, id, addr, len) == [fn |-> fn, id |-> id, addr |-> addr, len |-> len]

\* The bytes of the target process at the address read: `mem` repeated.
HostData(mem, len) == [i \in 1..len |-> mem[((i - 1) % Len(mem)) + 1]]

\* sys::process_read: on success the host has filled the whole buffer; on
\* failure it has copied resp.partial bytes (at most the buffer) before giving up.
process_read(resp, buf) ==
    LET n == IF resp.ok THEN Len(buf) ELSE Min(resp.partial, Len(buf))
    IN  [ok  |-> resp.ok,
         buf |-> [i \in 1..Len(buf) |-> IF i <= n THEN HostData(resp.mem, n)[i] ELSE buf[i]]]

----------------------------------------------------------------------------
(* Process methods as functions of their arguments and the host's replies *)

\* Process::read_into_buf
read_into_buf(id, address, buf, resp) ==
    LET r == process_read(resp, buf)
    IN  [res       |-> IF r.ok THEN "Ok" ELSE "Err",
         val       |-> NoValue,
         buf       |-> r.buf,
         hostCalls |-> <<HostCall("process_read", id, address, Len(buf))>>]

\* faulty variant of read: the host's verdict is ignored and the buffer is
\* assumed initialised
read_unchecked(id, address, size, resp) ==
    LET r == read_into_buf(id, address, Uninit(size), resp)
    IN  [res |-> "Ok", val |-> r.buf, buf |-> <<>>, hostCalls |-> r.hostCalls]

\* Process::read::<T>, size = size_of::<T>()
read(id, address, size, resp) ==
    LET r == read_into_buf(id, address, Uninit(size), resp)
    IN  IF r.res = "Err"
        THEN [res |-> "Err", val |-> NoValue, buf |-> <<>>, hostCalls |-> r.hostCalls]
        ELSE [res |-> "Ok", val |-> r.buf, buf |-> <<>>, hostCalls |-> r.hostCalls]

\* faulty variant of Walk64: a failed intermediate read is skipped and the walk
\* goes on from the address it had
RECURSIVE Walk64_skip_failed(_, _, _, _)
Walk64_skip_failed(id, address, path, resps) ==
    IF path = <<>>
    THEN [res |-> "Ok", val |-> address, hostCalls |-> <<>>]
    ELSE LET r == read(id, wrapping_add(address, Head(path)), 8, Head(resps))
             w == Walk64_skip_failed(id, IF r.res = "Err" THEN address ELSE r.val,
                                     Tail(path), Tail(resps))
         IN  [res |-> w.res, val |-> w.val, hostCalls |-> r.hostCalls \o w.hostCalls]

\* the `for &offset in path` loop of read_pointer_path64 over all offsets but
\* the last; resps are the host's replies to the reads, in order
RECURSIVE Walk64(_, _, _, _)
Walk64(id, address, path, resps) ==
    IF path = <<>>
    THEN [res |-> "Ok", val |-> address, hostCalls |-> <<>>]
    ELSE LET r == read(id, wrapping_add(address, Head(path)), 8, Head(resps))
         IN  IF r.res = "Err"
             THEN [res |-> "Err", val |-> NoValue, hostCalls |-> r.hostCalls]
             ELSE LET w == Walk64(id, r.val, Tail(path), Tail(resps))
                  IN  [res |-> w.res, val |-> w.val,
                       hostCalls |-> r.hostCalls \o w.hostCalls]

\* faulty variant of read_pointer_path64: an empty path yields the base address
\* itself instead of failing
read_pointer_path64_empty_is_base(id, address, path, size, resps) ==
    IF path = <<>>
    THEN [res |-> "Ok", val |-> address, buf |-> <<>>, hostCalls |-> <<>>]
    ELSE LET n == Len(path)
             w == Walk64(id, address, SubSeq(path, 1, n - 1), resps)
         IN  IF w.res = "Err"
             THEN [res |-> "Err", val |-> NoValue, buf |-> <<>>, hostCalls |-> w.hostCalls]
             ELSE LET r == read(id, wrapping_add(w.val, path[n]), size, resps[n])
                  IN  [res |-> r.res, val |-> r.val, buf |-> <<>>,
                       hostCalls |-> w.hostCalls \o r.hostCalls]

\* faulty variant of read_pointer_path64: the last offset is dropped and the
\* terminal read is made at the last pointer read
read_pointer_path64_drop_last(id, address, path, size, resps) ==
    IF path = <<>>
    THEN [res |-> "Err", val |-> NoValue, buf |-> <<>>, hostCalls |-> <<>>]
    ELSE LET n == Len(path)
             w == Walk64(id, address, SubSeq(path, 1, n - 1), resps)
         IN  IF w.res = "Err"
             THEN [res |-> "Err", val |-> NoValue, buf |-> <<>>, hostCalls |-> w.hostCalls]
             ELSE LET r == read(id, w.val, size, resps[n])
                  IN  [res |-> r.res, val |-> r.val, buf |-> <<>>,
                       hostCalls |-> w.hostCalls \o r.hostCalls]

\* Process::read_pointer_path64::<T>, size = size_of::<T>()
read_pointer_path64(id, address, path, size, resps) ==
    IF path = <<>>
    THEN [res |-> "Err", val |-> NoValue, buf |-> <<>>, hostCalls |-> <<>>]
    ELSE LET n == Len(path)
             w == Walk64(id, address, SubSeq(path, 1, n - 1), resps)
         IN  IF w.res = "Err"
             THEN [res |-> "Err", val |-> NoValue, buf |-> <<>>, hostCalls |-> w.hostCalls]
             ELSE LET r == read(id, wrapping_add(w.val, path[n]), size, resps[n])
                  IN  [res |-> r.res, val |-> r.val, buf |-> <<>>,
                       hostCalls |-> w.hostCalls \o r.hostCalls]

\* faulty variant of PathAddress32: widens first and adds at 64 bits, so the
\* sum does not wrap at 2^32
PathAddress32_widen_first(address, offset) == wrapping_add(as_u64(address), as_u64(offset))

\* `Address(address.wrapping_add(offset) as u64)` of read_pointer_path32
PathAddress32(address, offset) == as_u64(wrapping_add(address, offset))

\* the loop of read_pointer_path32: 32-bit arithmetic, widened for the read
RECURSIVE Walk32(_, _, _, _)
Walk32(id, address, path, resps) ==
    IF path = <<>>
    THEN [res |-> "Ok", val |-> address, hostCalls |-> <<>>]
    ELSE LET r == read(id, PathAddress32(address, Head(path)), 4, Head(resps))
         IN  IF r.res = "Err"
             THEN [res |-> "Err", val |-> NoValue, hostCalls |-> r.hostCalls]
             ELSE LET w == Walk32(id, r.val, Tail(path), Tail(resps))
                  IN  [res |-> w.res, val |-> w.val,
                       hostCalls |-> r.hostCalls \o w.hostCalls]

\* Process::read_pointer_path32::<T>
read_pointer_path32(id, address, path, size, resps) ==
    IF path = <<>>
    THEN [res |-> "Err", val |-> NoValue, buf |-> <<>>, hostCalls |-> <<>>]
    ELSE LET n == Len(path)
             w == Walk32(id, address, SubSeq(path, 1, n - 1), resps)
         IN  IF w.res = "Err"
             THEN [res |-> "Err", val |-> NoValue, buf |-> <<>>, hostCalls |-> w.hostCalls]
             ELSE LET r == read(id, PathAddress32(w.val, path[n]), size, resps[n])
                  IN  [res |-> r.res, val |-> r.val, buf |-> <<>>,
                       hostCalls |-> w.hostCalls \o r.hostCalls]

\* bytemuck::cast_slice_mut: the slice's elements seen as one run of bytes
RECURSIVE cast_slice_mut(_)
cast_slice_mut(slice) ==
    IF slice = <<>> THEN <<>> ELSE Head(slice) \o cast_slice_mut(Tail(slice))

\* the same memory seen again as elements of `size` bytes
SliceOf(bytes, size) ==
    [k \in 1..(Len(bytes) \div size) |-> SubSeq(bytes, (k - 1) * size + 1, k * size)]

\* faulty variant of read_into_slice: the element count is passed as the byte
\* length, so only the first Len(slice) bytes are read
read_into_slice_count_as_len(id, address, size, slice, resp) ==
    LET bytes == cast_slice_mut(slice)
        r == read_into_buf(id, address, SubSeq(bytes, 1, Len(slice)), resp)
    IN  [res |-> r.res, val |-> NoValue,
         buf |-> SliceOf(r.buf \o SubSeq(bytes, Len(slice) + 1, Len(bytes)), size),
         hostCalls |-> r.hostCalls]

\* Process::read_into_slice::<T>, size = size_of::<T>(); buf is the caller's
\* slice after the call
read_into_slice(id, address, size, slice, resp) ==
    LET r == read_into_buf(id, address, cast_slice_mut(slice), resp)
    IN  [res |-> r.res, val |-> NoValue, buf |-> SliceOf(r.buf, size),
         hostCalls |-> r.hostCalls]

\* Process::get_module; reply is the host's Option<NonZeroAddress>
get_module(id, reply) ==
    [res |-> IF reply = NoAddr THEN "Err" ELSE "Ok", val |-> reply, buf |-> <<>>,
     hostCalls |-> <<HostCall("process_get_module_address", id, NoAddr, 0)>>]

\* Process::scan_signature
scan_signature(id, reply) ==
    [res |-> IF reply = NoAddr THEN "Err" ELSE "Ok", val |-> reply, buf |-> <<>>,
     hostCalls |-> <<HostCall("process_scan_signature", id, NoAddr, 0)>>]

\* faulty variant of is_open: a failed read is remembered as "process gone"
is_open_after_failed_read(id) ==
    [res |-> IF hostOpen[id] /\ call.res # "Err" THEN "true" ELSE "false",
     val |-> NoValue, buf |-> <<>>,
     hostCalls |-> <<HostCall("process_is_open", id, NoAddr, 0)>>]

\* Process::is_open
is_open(id) ==
    [res |-> IF hostOpen[id] THEN "true" ELSE "false", val |-> NoValue, buf |-> <<>>,
     hostCalls |-> <<HostCall("process_is_open", id, NoAddr, 0)>>]

\* faulty variant of drop: detach is skipped once the process is gone
drop_if_open(id) ==
    [res |-> "unit", val |-> NoValue, buf |-> <<>>,
     hostCalls |-> IF hostOpen[id] THEN <<HostCall("process_detach", id, NoAddr, 0)>>
                   ELSE <<>>]

\* faulty variant of drop: liveness is queried after the session was detached
drop_then_query(id) ==
    [res |-> "unit", val |-> NoValue, buf |-> <<>>,
     hostCalls |-> <<HostCall("process_detach", id, NoAddr, 0),
                     HostCall("process_is_open", id, NoAddr, 0)>>]

\* impl Drop for Process
drop(id) ==
    [res |-> "unit", val |-> NoValue, buf |-> <<>>,
     hostCalls |-> <<HostCall("process_detach", id, NoAddr, 0)>>]

----------------------------------------------------------------------------
(* State *)

NoProcess == [st |-> "none", id |-> 0]

Idle == [op |-> "none", h |-> 0, arg |-> <<>>, hostCalls |-> <<>>,
         res |-> "none", val |-> NoValue, buf |-> <<>>]

NoRequest == [op |-> "none"]

Done(op, h, arg, r) ==
    [op |-> op, h |-> h, arg |-> arg, hostCalls |-> r.hostCalls,
     res |-> r.res, val |-> r.val, buf |-> r.buf]

Live(h) == proc[h].st = "live"

\* number of process_detach calls for session id among the host calls cs
Detaches(cs, id) == Cardinality({i \in 1..Len(cs) : cs[i].fn = "process_detach" /\ cs[i].id = id})

----------------------------------------------------------------------------
(* Operations *)

\* Process::attach; reply is the host's Option<ProcessId> (0 is None).  The
\* host hands out a session id it has not handed out before, for a process
\* that is running.
Attach(h, reply) ==
    /\ proc[h].st = "none"
    /\ reply # 0 => \A g \in Handles : proc[g].id # reply
    /\ proc' = IF reply = 0 THEN proc
               ELSE [proc EXCEPT ![h] = [st |-> "live", id |-> reply]]
    /\ hostOpen' = IF reply = 0 THEN hostOpen ELSE [hostOpen EXCEPT ![reply] = TRUE]
    /\ call' = [op |-> "attach", h |-> h, arg |-> <<>>,
                hostCalls |-> <<HostCall("process_attach", 0, NoAddr, 0)>>,
                res |-> IF reply = 0 THEN "None" ELSE "Some", val |-> NoValue, buf |-> <<>>]
    /\ UNCHANGED <<overflowChecks, detachCount>>

\* the target process terminates; the host's liveness flag turns false
HostProcessExit(id) ==
    /\ hostOpen[id]
    /\ hostOpen' = [hostOpen EXCEPT ![id] = FALSE]
    /\ UNCHANGED <<overflowChecks, proc, detachCount, call>>

\* an operation on a live handle that only talks to the host
Method(h, op, arg, r) ==
    /\ Live(h)
    /\ call' = Done(op, h, arg, r)
    /\ detachCount' = [i \in Ids |-> detachCount[i] + Detaches(r.hostCalls, i)]
    /\ UNCHANGED <<overflowChecks, proc, hostOpen>>

GetModule(h, reply) ==
    Method(h, "get_module", [reply |-> reply], get_module(proc[h].id, reply))

ScanSignature(h, reply) ==
    Method(h, "scan_signature", [reply |-> reply], scan_signature(proc[h].id, reply))

ReadIntoBuf(h, address, buf, resp) ==
    Method(h, "read_into_buf", [address |-> address, buf |-> buf, resp |-> resp],
           read_into_buf(proc[h].id, address, buf, resp))

Read(h, address, size, resp) ==
    Method(h, "read", [address |-> address, size |-> size, resp |-> resp],
           read(proc[h].id, address, size, resp))

ReadPointerPath64(h, address, path, size, resps) ==
    Method(h, "read_pointer_path64",
           [address |-> address, path |-> path, size |-> size, resps |-> resps],
           read_pointer_path64(proc[h].id, address, path, size, resps))

ReadPointerPath32(h, address, path, size, resps) ==
    Method(h, "read_pointer_path32",
           [address |-> address, path |-> path, size |-> size, resps |-> resps],
           read_pointer_path32(proc[h].id, address, path, size, resps))

ReadIntoSlice(h, address, size, slice, resp) ==
    Method(h, "read_into_slice",
           [address |-> address, size |-> size, slice |-> slice, resp |-> resp],
           read_into_slice(proc[h].id, address, size, slice, resp))

IsOpen(h) == Method(h, "is_open", <<>>, is_open(proc[h].id))

\* the handle goes out of scope: Drop runs, and the value is gone afterwards
Drop(h) ==
    /\ Live(h)
    /\ LET r == drop(proc[h].id)
       IN  /\ call' = Done("drop", h, <<>>, r)
           /\ detachCount' = [i \in Ids |-> detachCount[i] + Detaches(r.hostCalls, i)]
    /\ proc' = [proc EXCEPT ![h].st = "dropped"]
    /\ UNCHANGED <<overflowChecks, hostOpen>>

\* Address + u32 and Address + u64, free of any handle
AddU32(a, rhs) ==
    /\ call' = [Idle EXCEPT !.op = "add_u32", !.arg = [a |-> a, rhs |-> rhs],
                            !.res = Address_add_u32(a, rhs).res,
                            !.val = Address_add_u32(a, rhs).val]
    /\ UNCHANGED <<overflowChecks, proc, hostOpen, detachCount>>

AddU64(a, rhs) ==
    /\ call' = [Idle EXCEPT !.op = "add_u64", !.arg = [a |-> a, rhs |-> rhs],
                            !.res = Address_add_u64(a, rhs).res,
                            !.val = Address_add_u64(a, rhs).val]
    /\ UNCHANGED <<overflowChecks, proc, hostOpen, detachCount>>

----------------------------------------------------------------------------
(* Inputs *)

U64_400000 == <<0, 0, 64, 0, 0, 0, 0, 0>>                       \* 0x0000_0000_0040_0000
U64_TOP    == <<240, 255, 255, 255, 255, 255, 255, 255>>        \* 0xFFFF_FFFF_FFFF_FFF0
U64_10     == <<16, 0, 0, 0, 0, 0, 0, 0>>                       \* 0x10
U64_NEG4   == <<252, 255, 255, 255, 255, 255, 255, 255>>        \* -4 as u64
U32_400000 == <<0, 0, 64, 0>>                                   \* 0x0040_0000
U32_TOP    == <<240, 255, 255, 255>>                            \* 0xFFFF_FFF0
U32_10     == <<16, 0, 0, 0>>                                   \* 0x10
U32_NEG4   == <<252, 255, 255, 255>>                            \* -4 as u32

\* contents of the target's memory: a pointer near the top of the address
\* space (0x..F0 at either width) and a small value (0x2010)
MemHigh == <<240, 255, 255, 255, 255, 255, 255, 255>>
MemLow  == <<16, 32, 0, 0, 0, 0, 0, 0>>

Bases64   == {U64_400000, U64_TOP}
Offsets64 == {U64_10, U64_NEG4}
Bases32   == {U32_400000, U32_TOP}
Offsets32 == {U32_10, U32_NEG4}
TSizes    == {1, 4}                     \* size_of::<T>() for T = u8, u32
OldElem   == <<170, 187>>               \* what the caller's slice holds before a call
ElemSize  == Len(OldElem)               \* size_of::<T>() of the slices' T = u16

ReadOk(mem) == [ok |-> TRUE, mem |-> mem, partial |-> 0]
ReadFail(n) == [ok |-> FALSE, mem |-> MemLow, partial |-> n]

\* replies of the host to one process_read
PathResponses == {ReadOk(MemHigh), ReadOk(MemLow), ReadFail(0)}
ReadResponses == {ReadOk(MemHigh), ReadOk(MemLow)} \cup {ReadFail(n) : n \in 0..MaxPartial}

SeqsUpTo(S, n) == UNION {[1..k -> S] : k \in 0..n}

Slices == SeqsUpTo({OldElem}, MaxElems)
Bufs   == {cast_slice_mut(s) : s \in Slices}

\* the small inputs of the lifecycle specification
LifeResponses == {ReadOk(MemLow), ReadFail(1)}
LifePaths64   == SeqsUpTo({U64_10}, LifePath)
LifePaths32   == SeqsUpTo({U32_10}, LifePath)
LifeSlices    == {<<OldElem>>}
ModuleReplies == {NoAddr, U64_400000}

----------------------------------------------------------------------------
(* Lifecycle specification: any number of handles' operations in any order *)

Init ==
    /\ overflowChecks \in BOOLEAN
    /\ proc = [h \in Handles |-> NoProcess]
    /\ hostOpen = [i \in Ids |-> FALSE]
    /\ detachCount = [i \in Ids |-> 0]
    /\ call = Idle
    /\ pending = NoRequest

DoAttach ==
    \E h \in Handles, reply \in {0} \cup Ids : Attach(h, reply) /\ UNCHANGED pending
DoHostProcessExit ==
    \E id \in Ids : HostProcessExit(id) /\ UNCHANGED pending
DoGetModule ==
    \E h \in Handles, reply \in ModuleReplies : GetModule(h, reply) /\ UNCHANGED pending
DoScanSignature ==
    \E h \in Handles, reply \in ModuleReplies : ScanSignature(h, reply) /\ UNCHANGED pending
DoReadIntoBuf ==
    \E h \in Handles, resp \in LifeResponses :
        ReadIntoBuf(h, U64_400000, OldElem, resp) /\ UNCHANGED pending
DoRead ==
    \E h \in Handles, resp \in LifeResponses :
        Read(h, U64_400000, 4, resp) /\ UNCHANGED pending
DoReadPointerPath64 ==
    \E h \in Handles, path \in LifePaths64 :
        \E resps \in [1..Len(path) -> LifeResponses] :
            ReadPointerPath64(h, U64_400000, path, 4, resps) /\ UNCHANGED pending
DoReadPointerPath32 ==
    \E h \in Handles, path \in LifePaths32 :
        \E resps \in [1..Len(path) -> LifeResponses] :
            ReadPointerPath32(h, U32_400000, path, 4, resps) /\ UNCHANGED pending
DoReadIntoSlice ==
    \E h \in Handles, slice \in LifeSlices, resp \in LifeResponses :
        ReadIntoSlice(h, U64_400000, ElemSize, slice, resp) /\ UNCHANGED pending
DoIsOpen ==
    \E h \in Handles : IsOpen(h) /\ UNCHANGED pending
DoDrop ==
    \E h \in Handles : Drop(h) /\ UNCHANGED pending

Next ==
    \/ DoAttach
    \/ DoHostProcessExit
    \/ DoGetModule
    \/ DoScanSignature
    \/ DoReadIntoBuf
    \/ DoRead
    \/ DoReadPointerPath64
    \/ DoReadPointerPath32
    \/ DoReadIntoSlice
    \/ DoIsOpen
    \/ DoDrop

Spec == Init /\ [][Next]_vars

----------------------------------------------------------------------------
(* Single-call specification: one handle is attached, one request is drawn *)
(* from the full input sets, and the operation it names is applied to it.  *)

ReadRequests ==
    [op : {"read"}, address : Bases64, size : TSizes, resp : ReadResponses]
BufRequests ==
    [op : {"read_into_buf"}, address : Bases64, buf : Bufs, resp : ReadResponses]
SliceRequests ==
    [op : {"read_into_slice"}, address : Bases64, slice : Slices, resp : ReadResponses]
Path64Requests ==
    UNION {[op : {"read_pointer_path64"}, address : Bases64, path : {path}, size : TSizes,
            resps : [1..Len(path) -> PathResponses]] : path \in SeqsUpTo(Offsets64, MaxPath)}
Path32Requests ==
    UNION {[op : {"read_pointer_path32"}, address : Bases32, path : {path}, size : TSizes,
            resps : [1..Len(path) -> PathResponses]] : path \in SeqsUpTo(Offsets32, MaxPath)}
AddU32Requests == [op : {"add_u32"}, a : Bases64, rhs : Offsets32]
AddU64Requests == [op : {"add_u64"}, a : Bases64, rhs : Offsets64]

InitMem ==
    /\ overflowChecks \in BOOLEAN
    /\ proc = [h \in Handles |-> IF h = 1 THEN [st |-> "live", id |-> 1] ELSE NoProcess]
    /\ hostOpen \in {[i \in Ids |-> i = 1 /\ b] : b \in BOOLEAN}
    /\ detachCount = [i \in Ids |-> 0]
    /\ call = Idle
    /\ \/ pending \in ReadRequests
       \/ pending \in BufRequests
       \/ pending \in SliceRequests
       \/ pending \in Path64Requests
       \/ pending \in Path32Requests
       \/ pending \in AddU32Requests
       \/ pending \in AddU64Requests

MemRead ==
    /\ pending.op = "read"
    /\ Read(1, pending.address, pending.size, pending.resp)
    /\ pending' = NoRequest
MemReadIntoBuf ==
    /\ pending.op = "read_into_buf"
    /\ ReadIntoBuf(1, pending.address, pending.buf, pending.resp)
    /\ pending' = NoRequest
MemReadIntoSlice ==
    /\ pending.op = "read_into_slice"
    /\ ReadIntoSlice(1, pending.address, ElemSize, pending.slice, pending.resp)
    /\ pending' = NoRequest
MemReadPointerPath64 ==
    /\ pending.op = "read_pointer_path64"
    /\ ReadPointerPath64(1, pending.address, pending.path, pending.size, pending.resps)
    /\ pending' = NoRequest
MemReadPointerPath32 ==
    /\ pending.op = "read_pointer_path32"
    /\ ReadPointerPath32(1, pending.address, pending.path, pending.size, pending.resps)
    /\ pending' = NoRequest
MemAddU32 ==
    /\ pending.op = "add_u32"
    /\ AddU32(pending.a, pending.rhs)
    /\ pending' = NoRequest
MemAddU64 ==
    /\ pending.op = "add_u64"
    /\ AddU64(pending.a, pending.rhs)
    /\ pending' = NoRequest

NextMem ==
    \/ MemRead
    \/ MemReadIntoBuf
    \/ MemReadIntoSlice
    \/ MemReadPointerPath64
    \/ MemReadPointerPath32
    \/ MemAddU32
    \/ MemAddU64

SpecMem == InitMem /\ [][NextMem]_vars

----------------------------------------------------------------------------
(* Properties *)

\* c[i] is the carry into byte i of a + o
CarryInto(a, o) ==
    LET c[i \in 1..(Len(a) + 1)] ==
            IF i = 1 THEN 0 ELSE (a[i - 1] + o[i - 1] + c[i - 1]) \div 256
    IN  c

\* r = (a + o) mod 2^(8 * Len(a)), for a, o, r of the same width
IsSumMod(a, o, r) ==
    /\ Len(o) = Len(a)
    /\ Len(r) = Len(a)
    /\ \A i \in 1..Len(a) : r[i] = (a[i] + o[i] + CarryInto(a, o)[i]) % 256

IsPath64 == call.op = "read_pointer_path64"
IsPath32 == call.op = "read_pointer_path32"
IsPath == IsPath64 \/ IsPath32
PtrWidth == IF IsPath64 THEN 8 ELSE 4

\* the address the resolution holds before its i-th read: the base, then the
\* pointer the host returned for read i-1
PathAddressBefore(i) ==
    IF i = 1 THEN call.arg.address ELSE HostData(call.arg.resps[i - 1].mem, PtrWidth)

FailedReplies == {i \in 1..Len(call.arg.resps) : ~call.arg.resps[i].ok}
FirstFailure == CHOOSE k \in FailedReplies : \A j \in FailedReplies : k <= j

\* C1: every handle obtained from a successful attach has had process_detach
\* called with its session id exactly once when it is dropped, and never before,
\* whatever calls were made through it and whether or not the host still
\* reports the process open.
DetachExactlyOnce ==
    /\ \A h \in Handles :
        /\ proc[h].st = "live" => detachCount[proc[h].id] = 0
        /\ proc[h].st = "dropped" => detachCount[proc[h].id] = 1
    /\ call.op = "drop" =>
        call.hostCalls = <<HostCall("process_detach", proc[call.h].id, NoAddr, 0)>>

\* a handle was dropped although the host reports its process as not open
DetachWitness ==
    \E h \in Handles :
        /\ proc[h].st = "dropped"
        /\ ~hostOpen[proc[h].id]
        /\ call.op = "drop" /\ call.h = h
        /\ detachCount[proc[h].id] = 1

\* C2: once process_detach has been issued for a session id, no host call
\* carries that id again; within the releasing operation itself, detach is the
\* last call.
DetachIsLast ==
    [][call' # call =>
        /\ \A i \in 1..Len(call'.hostCalls) :
              call'.hostCalls[i].id \in Ids => detachCount[call'.hostCalls[i].id] = 0
        /\ \A i, j \in 1..Len(call'.hostCalls) :
              (call'.hostCalls[i].fn = "process_detach" /\ i < j)
                  => call'.hostCalls[j].id # call'.hostCalls[i].id]_vars

\* one handle has been released and the program goes on reading through another
DetachIsLastWitness ==
    \E h \in Handles :
        /\ proc[h].st = "dropped"
        /\ call.op = "read" /\ call.h # h
        /\ Live(call.h)

\* C3: read_pointer_path32/64 with an empty offset sequence returns Error and
\* issues no host read, for every base address and result type.
EmptyPathFails ==
    (IsPath /\ call.arg.path = <<>>) =>
        /\ call.res = "Err"
        /\ call.val = NoValue
        /\ call.hostCalls = <<>>

EmptyPathWitness ==
    /\ IsPath64 /\ call.arg.path = <<>>
    /\ call.arg.address = U64_TOP
    /\ call.res = "Err"

\* C4: with n >= 1 offsets and every host read succeeding, exactly n host reads
\* are issued, in order: read i is at (address before it) + offset i, of pointer
\* width for i < n and of the result type's size for i = n, and the value of
\* the last read is the result.
PathReadsInOrder ==
    (IsPath /\ call.arg.path # <<>> /\ FailedReplies = {}) =>
        LET n == Len(call.arg.path)
        IN  /\ Len(call.hostCalls) = n
            /\ \A i \in 1..n :
                /\ call.hostCalls[i].fn = "process_read"
                /\ call.hostCalls[i].len = IF i < n THEN PtrWidth ELSE call.arg.size
                /\ IsSumMod(PathAddressBefore(i), call.arg.path[i],
                            SubSeq(call.hostCalls[i].addr, 1, PtrWidth))
            /\ call.res = "Ok"
            /\ call.val = HostData(call.arg.resps[n].mem, call.arg.size)

\* a three-offset path resolved through two pointers; and a one-offset path
PathReadsWitness ==
    /\ IsPath64 /\ Len(call.arg.path) = 3 /\ FailedReplies = {}
    /\ call.arg.resps[1].mem # call.arg.resps[2].mem
    /\ call.res = "Ok"

PathSingleOffsetWitness ==
    /\ IsPath /\ Len(call.arg.path) = 1 /\ FailedReplies = {}
    /\ Len(call.hostCalls) = 1

\* C5: if the k-th host read of a resolution is the first to fail, the call
\* returns Error after exactly k host reads and returns no value.
PathStopsAtFirstFailure ==
    (IsPath /\ FailedReplies # {}) =>
        /\ call.res = "Err"
        /\ Len(call.hostCalls) = FirstFailure
        /\ call.val = NoValue

\* the second of three reads fails
PathFailureWitness ==
    /\ IsPath64 /\ Len(call.arg.path) = 3
    /\ call.arg.resps[1].ok /\ ~call.arg.resps[2].ok
    /\ call.res = "Err"

\* C6: Address(a) + o is Address((a + o) mod 2^64) for every a and every u32
\* or u64 offset o, and never faults.
AddressAddWraps ==
    /\ call.op = "add_u32" =>
        call.res = "Ok" /\ IsSumMod(call.arg.a, call.arg.rhs \o Zeros(4), call.val)
    /\ call.op = "add_u64" =>
        call.res = "Ok" /\ IsSumMod(call.arg.a, call.arg.rhs, call.val)

\* C7: read::<T> issues exactly one host read of size_of::<T>() bytes at the
\* address; it returns Ok exactly when the host reports success, with the bytes
\* the host copied; on failure it returns Error and no value.
ReadIsAtomic ==
    call.op = "read" =>
        /\ call.hostCalls =
              <<HostCall("process_read", proc[call.h].id, call.arg.address, call.arg.size)>>
        /\ call.res = IF call.arg.resp.ok THEN "Ok" ELSE "Err"
        /\ call.res = "Ok" => call.val = HostData(call.arg.resp.mem, call.arg.size)
        /\ call.res = "Err" => call.val = NoValue

\* the host copied some bytes and then reported failure
ReadFailureWitness ==
    /\ call.op = "read"
    /\ ~call.arg.resp.ok /\ call.arg.resp.partial > 0
    /\ call.res = "Err"

IsOpenReflectsHost ==
    [][(call' # call /\ call'.op = "is_open") =>
        /\ call'.hostCalls = <<HostCall("process_is_open", proc[call'.h].id, NoAddr, 0)>>
        /\ call'.res = IF hostOpen[proc[call'.h].id] THEN "true" ELSE "false"
        /\ proc' = proc]_vars

\* is_open answers false on a handle that is still held: the host's flag
\* flipped after the attach
IsOpenWitness ==
    /\ call.op = "is_open"
    /\ call.res = "false"
    /\ Live(call.h)
    /\ ~hostOpen[proc[call.h].id]

\* C10: read_pointer_path32 hands the host (address + offset) mod 2^32
\* zero-extended to 64 bits and reads intermediate pointers as 4 bytes;
\* read_pointer_path64 hands it (address + offset) mod 2^64 and reads
\* intermediate pointers as 8 bytes; neither faults.
PathAddressWidth ==
    IsPath =>
        /\ call.res \in {"Ok", "Err"}
        /\ \A i \in 1..Len(call.hostCalls) :
            /\ Len(call.hostCalls[i].addr) = 8
            /\ IsSumMod(PathAddressBefore(i), call.arg.path[i],
                        SubSeq(call.hostCalls[i].addr, 1, PtrWidth))
            /\ IsPath32 => SubSeq(call.hostCalls[i].addr, 5, 8) = Zeros(4)
            /\ i < Len(call.arg.path) => call.hostCalls[i].len = PtrWidth

\* a 32-bit resolution whose sum passes 2^32: pointer 0xFFFF_FFF0 plus 0x10
\* is read at address 0
PathWrapWitness ==
    /\ IsPath32 /\ Len(call.hostCalls) = 2
    /\ call.arg.resps[1].mem = MemHigh
    /\ call.arg.path[2] = U32_10
    /\ call.hostCalls[2].addr = Zeros(8)

====
